---- MODULE Spec2Model ----
(***************************************************************************)
(* Host-port exposure through the SSHD bridge container                    *)
(* (port_forwarding.go): the bridge controller sshdContainer, its          *)
(* PortForwarders, the Forward goroutine of each forwarder and the         *)
(* goroutines calling exposeHostPort and Terminate.                         *)
(*                                                                         *)
(* Channels are modelled by what Go guarantees for them: connectionCreated *)
(* is unbuffered, so a send is a rendezvous with a receive; a receive on a *)
(* closed channel yields the zero value (a nil error); a send on a closed  *)
(* channel and a close of a closed channel panic, which ends the process.  *)
(***************************************************************************)
EXTENDS Integers, Sequences, FiniteSets, TLC

\* ------------------------------------------------------------------ bounds
MaxFwd == 2        \* forwarders created over the life of one bridge
MaxCalls == 2      \* calls of sshdContainer.exposeHostPort
MaxTerm == 2       \* calls of sshdContainer.Terminate
MaxConn == 2       \* inbound connections accepted over all forwarders
MaxBytes == 3      \* bytes the peers write into the tunnels, all together

MaxProv == 2       \* calls of exposeHostPorts
MaxNets == 3       \* networks of the caller's request
MaxPorts == 1      \* ports handed to exposeHostPorts
MaxInvoke == 1     \* invocations of the request's HostConfigModifier

Ports == {8080, 9090}
Nets == {"bridge", "n1", "n2"}

\* sequences over S of length at most n
RECURSIVE SeqsUpTo(_, _)
SeqsUpTo(S, n) ==
    IF n = 0 THEN {<<>>}
    ELSE LET shorter == SeqsUpTo(S, n - 1)
         IN  shorter \cup {Append(s, x) : s \in {t \in shorter : Len(t) = n - 1}, x \in S}

VARIABLES
    bridge,          \* sshdContainer.DockerContainer: "running" | "stopped"
    portForwarders,  \* sshdContainer.portForwarders: sequence of forwarder ids
    fw,              \* every PortForwarder made by NewPortForwarder, and its Forward goroutine
    ctxDone,         \* the context handed to exposeHostPort and Forward is cancelled
    exp,             \* the goroutine running sshdContainer.exposeHostPort
    lastExpose,      \* what the last finished exposeHostPort call returned
    calls,           \* number of exposeHostPort calls started
    term,            \* the goroutine running sshdContainer.Terminate
    lastTerm,        \* what the last finished Terminate call returned
    terms,           \* number of Terminate calls started
    conns,           \* connections accepted by Forward, each with its runTunnel goroutine
    panicked,        \* "none", or the runtime panic that ended the process
    req,             \* the caller's *Request handed to exposeHostPorts
    prov,            \* what the last exposeHostPorts call was given (p, and the
                     \* request's HostAccessPorts then) and returned
    provs,           \* number of exposeHostPorts calls made
    lookups,         \* the names network.GetByName was asked for
    bridges,         \* the SSHD containers New has started
    hostConfigs      \* the runs of req.HostConfigModifier: host config given and left

runVars == <<bridge, portForwarders, fw, ctxDone, exp, lastExpose, calls, term,
             lastTerm, terms, conns, panicked>>

provVars == <<req, prov, provs, lookups, bridges, hostConfigs>>

vars == <<runVars, provVars>>

\* --------------------------------------------------------- sshdContainer

HostInternal == "host.testcontainers.internal"

\* the process-wide password of line 31
sshPassword == "uuid"

\* a choice that always takes the first network of the request
SshdFirstNetworkNoSkip(nets) ==
    IF Len(nets) = 0 THEN "" ELSE nets[1]

\* the network exposeHostPorts picks for the SSHD container (lines 47-55)
SshdFirstNetwork(nets) ==
    IF Len(nets) = 0 THEN ""
    ELSE IF nets[1] = "bridge" /\ Len(nets) > 1 THEN nets[2]
    ELSE nets[1]

NoHooks == [PostReadies |-> <<>>, PreTerminates |-> <<>>]

\* the hook set of lines 126-138 for SSHD container b
SshdConnectHook(b) ==
    [PostReadies |-> <<[call |-> "exposeHostPort", sshd |-> b]>>,
     PreTerminates |-> <<[call |-> "Terminate", sshd |-> b]>>]

\* a launch request that asks for host access to port 8080 itself
SshdRequestWithHostAccess(opts) ==
    [Image |-> "testcontainers/sshd:1.2.0",
     HostAccessPorts |-> <<8080>>,
     ExposedPorts |-> <<"22">>,
     Env |-> [PASSWORD |-> sshPassword],
     Networks |-> opts,
     NetworkAliases |-> [n \in {opts[i] : i \in 1..Len(opts)} |-> <<HostInternal>>]]

\* the request newSshdContainer builds and customizes (lines 145-157)
SshdRequest(opts) ==
    [Image |-> "testcontainers/sshd:1.2.0",
     HostAccessPorts |-> <<>>,
     ExposedPorts |-> <<"22">>,
     Env |-> [PASSWORD |-> sshPassword],
     Networks |-> opts,
     NetworkAliases |-> [n \in {opts[i] : i \in 1..Len(opts)} |-> <<HostInternal>>]]

\* the sshdContainer of lines 164-177: sshConfig stays nil when
\* configureSSHConfig fails
SshdContainer(opts, mappedOk) ==
    [request |-> SshdRequest(opts), state |-> "running",
     sshConfig |-> IF mappedOk THEN "set" ELSE "nil",
     port |-> IF mappedOk THEN "mapped" ELSE ""]

\* the sshdContainer whose hooks the caller holds
Sshd == bridges[Len(bridges)]

\* fmt.Sprintf("localhost:%s", sshdC.port) (line 217)
SshdAddr(b) == <<"localhost", b.port>>

\* ------------------------------------------------------------ PortForwarder

\* NewPortForwarder: both channels made open and unbuffered; `go pw.Forward`
\* starts the goroutine at the dial.  out is the value Forward is about to
\* send on connectionCreated; observed lists what receivers got from the
\* channel: <<value, "forward" | "close", number of the receiving call>>.
NewPortForwarder(sshDAddr, sshConfig, remotePort, localPort) ==
    [sshDAddr |-> sshDAddr, sshConfig |-> sshConfig,
     remotePort |-> remotePort, localPort |-> localPort,
     connectionCreated |-> "open", terminateChan |-> "open",
     pc |-> "dial", out |-> "none", ret |-> "none",
     client |-> "none", listener |-> "none", observed |-> <<>>]

Fwds == 1..Len(fw)

Running == panicked = "none"

\* a return that runs no deferred close
DeferredLeftOpen(r) == r

\* the deferred client.Close() / listener.Close() of Forward
Deferred(r) == IF r = "open" THEN "closed" ELSE r

\* ssh.Dial (line 259): the client is open on success
FwdDial(f) ==
    /\ Running
    /\ fw[f].pc = "dial"
    /\ \/ /\ bridge = "running"
          /\ fw' = [fw EXCEPT ![f].pc = "listen", ![f].client = "open"]
       \/ fw' = [fw EXCEPT ![f].pc = "send", ![f].out = "dialErr"]
    /\ UNCHANGED provVars
    /\ UNCHANGED <<bridge, portForwarders, ctxDone, exp, lastExpose, calls, term,
                   lastTerm, terms, conns, panicked>>

\* client.Listen (line 267): the remote listener is bound on success
FwdListen(f) ==
    /\ Running
    /\ fw[f].pc = "listen"
    /\ \/ /\ bridge = "running"
          /\ fw' = [fw EXCEPT ![f].pc = "send", ![f].out = "nil", ![f].listener = "open"]
       \/ fw' = [fw EXCEPT ![f].pc = "send", ![f].out = "listenErr"]
    /\ UNCHANGED provVars
    /\ UNCHANGED <<bridge, portForwarders, ctxDone, exp, lastExpose, calls, term,
                   lastTerm, terms, conns, panicked>>

\* a Forward that goes on to the select whatever it sent
AfterSendEntersLoop(r) == [r EXCEPT !.pc = "select"]

\* Forward after its send on connectionCreated was taken (lines 262-263,
\* 270-271, 276): an error outcome returns through the deferred closes, the
\* nil outcome goes on to the select.
AfterSend(r) ==
    IF r.out = "nil"
    THEN [r EXCEPT !.pc = "select"]
    ELSE [r EXCEPT !.pc = "returned", !.ret = r.out, !.client = Deferred(r.client),
                   !.listener = Deferred(r.listener)]

\* pf.connectionCreated <- v on a channel Close has closed: panic
FwdSendPanic(f) ==
    /\ Running
    /\ fw[f].pc = "send"
    /\ fw[f].connectionCreated = "closed"
    /\ panicked' = "send on closed channel"
    /\ fw' = [fw EXCEPT ![f].pc = "panicked"]
    /\ UNCHANGED provVars
    /\ UNCHANGED <<bridge, portForwarders, ctxDone, exp, lastExpose, calls, term,
                   lastTerm, terms, conns>>

\* a Forward that enters the accept loop without looking at the signals
FwdSelectIgnoresSignals(f) ==
    /\ Running
    /\ fw[f].pc = "select"
    /\ fw' = [fw EXCEPT ![f].pc = "accept"]
    /\ UNCHANGED provVars
    /\ UNCHANGED <<bridge, portForwarders, ctxDone, exp, lastExpose, calls, term,
                   lastTerm, terms, conns, panicked>>

\* the select before the accept loop (lines 279-297)
FwdSelect(f) ==
    /\ Running
    /\ fw[f].pc = "select"
    /\ IF ctxDone \/ fw[f].terminateChan = "closed"
       THEN \E r \in (IF bridge = "running" THEN {"nil"} ELSE {"nil", "closeErr"}) :
               fw' = [fw EXCEPT ![f].pc = "returned", ![f].ret = r,
                                ![f].listener = "closed", ![f].client = "closed"]
       ELSE fw' = [fw EXCEPT ![f].pc = "accept"]
    /\ UNCHANGED provVars
    /\ UNCHANGED <<bridge, portForwarders, ctxDone, exp, lastExpose, calls, term,
                   lastTerm, terms, conns, panicked>>

\* ---------------------------------------------------------------- runTunnel

\* One direction of a tunnel: "up" is io.Copy(local, remote) (line 325),
\* "down" is io.Copy(remote, local) (line 330).  flight holds the bytes the
\* writing peer has put on the source connection, buf the chunk io.Copy has
\* read and not yet written; wrote and got list what the writing peer wrote
\* and what the reading peer received; eof: the writing peer closed its side.
NewCopy == [pc |-> "idle", buf |-> <<>>, flight |-> <<>>, wrote |-> <<>>,
            got |-> <<>>, eof |-> FALSE]

\* go pf.runTunnel(ctx, remote): the accepted connection and its goroutine;
\* done counts the values in the done channel (capacity 2, line 322)
NewTunnel(f) ==
    [fwd |-> f, pc |-> "dial", remote |-> "open", local |-> "none", done |-> 0,
     up |-> NewCopy, down |-> NewCopy]

Conns == 1..Len(conns)
Dirs == {"up", "down"}

\* the connection io.Copy reads from and the one it writes to
Src(d) == IF d = "up" THEN "remote" ELSE "local"
Dst(d) == IF d = "up" THEN "local" ELSE "remote"

\* a write that puts the chunk in front of what was delivered
WrittenInFront(got, buf) == buf \o got

\* dst.Write(buf) inside io.Copy: the reading peer receives the chunk after
\* what it already has
Written(got, buf) == got \o buf

\* a dial failure that also ends the Forward of the forwarder
TunDialFailureEndsForward(c) ==
    /\ Running
    /\ conns[c].pc = "dial"
    /\ \/ /\ ~ctxDone
          /\ conns' = [conns EXCEPT ![c].pc = "wait", ![c].local = "open",
                                    ![c].up.pc = "read", ![c].down.pc = "read"]
          /\ fw' = fw
       \/ /\ conns' = [conns EXCEPT ![c].pc = "returned", ![c].remote = "closed"]
          /\ fw' = [fw EXCEPT ![conns[c].fwd].pc = "returned",
                              ![conns[c].fwd].ret = "localDialErr"]
    /\ UNCHANGED provVars
    /\ UNCHANGED <<bridge, portForwarders, ctxDone, exp, lastExpose, calls, term,
                   lastTerm, terms, panicked>>

\* dialer.DialContext to the local port (lines 313-321): on failure the
\* accepted connection is closed and runTunnel returns; on success the two
\* copy goroutines are started
TunDial(c) ==
    /\ Running
    /\ conns[c].pc = "dial"
    /\ \/ /\ ~ctxDone
          /\ conns' = [conns EXCEPT ![c].pc = "wait", ![c].local = "open",
                                    ![c].up.pc = "read", ![c].down.pc = "read"]
       \/ conns' = [conns EXCEPT ![c].pc = "returned", ![c].remote = "closed"]
    /\ UNCHANGED provVars
    /\ UNCHANGED <<bridge, portForwarders, fw, ctxDone, exp, lastExpose, calls, term,
                   lastTerm, terms, panicked>>

\* src.Read inside io.Copy: a chunk of what is in flight, or EOF once the
\* writing peer has closed and nothing is left, or an error on a connection
\* runTunnel has closed
CopyRead(c, d) ==
    /\ Running
    /\ conns[c][d].pc = "read"
    /\ LET dir == conns[c][d]
       IN  IF conns[c][Src(d)] = "closed"
           THEN conns' = [conns EXCEPT ![c][d].pc = "signal"]
           ELSE \/ \E n \in 1..Len(dir.flight) :
                      conns' = [conns EXCEPT
                                  ![c][d].pc = "write",
                                  ![c][d].buf = SubSeq(dir.flight, 1, n),
                                  ![c][d].flight = SubSeq(dir.flight, n + 1, Len(dir.flight))]
                \/ /\ dir.flight = <<>>
                   /\ dir.eof
                   /\ conns' = [conns EXCEPT ![c][d].pc = "signal"]
    /\ UNCHANGED provVars
    /\ UNCHANGED <<bridge, portForwarders, fw, ctxDone, exp, lastExpose, calls, term,
                   lastTerm, terms, panicked>>

\* dst.Write inside io.Copy: the chunk reaches the reading peer, or the write
\* fails on a connection runTunnel has closed and io.Copy returns
CopyWrite(c, d) ==
    /\ Running
    /\ conns[c][d].pc = "write"
    /\ IF conns[c][Dst(d)] = "closed"
       THEN conns' = [conns EXCEPT ![c][d].pc = "signal", ![c][d].buf = <<>>]
       ELSE conns' = [conns EXCEPT ![c][d].pc = "read", ![c][d].buf = <<>>,
                         ![c][d].got = Written(conns[c][d].got, conns[c][d].buf)]
    /\ UNCHANGED provVars
    /\ UNCHANGED <<bridge, portForwarders, fw, ctxDone, exp, lastExpose, calls, term,
                   lastTerm, terms, panicked>>

\* a send on an unbuffered done channel: it needs runTunnel waiting to receive
CopySignalUnbuffered(c, d) ==
    /\ Running
    /\ conns[c][d].pc = "signal"
    /\ conns[c].pc = "wait"
    /\ conns[c].done < 1
    /\ conns' = [conns EXCEPT ![c][d].pc = "done", ![c].done = conns[c].done + 1]
    /\ UNCHANGED provVars
    /\ UNCHANGED <<bridge, portForwarders, fw, ctxDone, exp, lastExpose, calls, term,
                   lastTerm, terms, panicked>>

\* done <- struct{}{} (lines 326, 331) on the channel of capacity 2
CopySignal(c, d) ==
    /\ Running
    /\ conns[c][d].pc = "signal"
    /\ conns[c].done < 2
    /\ conns' = [conns EXCEPT ![c][d].pc = "done", ![c].done = conns[c].done + 1]
    /\ UNCHANGED provVars
    /\ UNCHANGED <<bridge, portForwarders, fw, ctxDone, exp, lastExpose, calls, term,
                   lastTerm, terms, panicked>>

\* a return that closes the accepted connection only
TunReturnRemoteOnly(c) ==
    /\ Running
    /\ conns[c].pc = "wait"
    /\ conns[c].done > 0
    /\ conns' = [conns EXCEPT ![c].pc = "returned", ![c].done = conns[c].done - 1,
                              ![c].remote = "closed"]
    /\ UNCHANGED provVars
    /\ UNCHANGED <<bridge, portForwarders, fw, ctxDone, exp, lastExpose, calls, term,
                   lastTerm, terms, panicked>>

\* <-done (line 334), then the deferred remote.Close() and local.Close()
TunReturn(c) ==
    /\ Running
    /\ conns[c].pc = "wait"
    /\ conns[c].done > 0
    /\ conns' = [conns EXCEPT ![c].pc = "returned", ![c].done = conns[c].done - 1,
                              ![c].remote = "closed", ![c].local = "closed"]
    /\ UNCHANGED provVars
    /\ UNCHANGED <<bridge, portForwarders, fw, ctxDone, exp, lastExpose, calls, term,
                   lastTerm, terms, panicked>>

\* bytes written so far by the peers of all tunnels
RECURSIVE BytesWritten(_)
BytesWritten(n) ==
    IF n = 0 THEN 0
    ELSE Len(conns[n].up.wrote) + Len(conns[n].down.wrote) + BytesWritten(n - 1)

\* The peer at the source end of direction d writes its next byte: the
\* bridge-side client on the accepted connection, the local listener on the
\* dialed one.  Byte k of a stream is the value k.
PeerWrite(c, d) ==
    /\ Running
    /\ conns[c][Src(d)] = "open"
    /\ ~conns[c][d].eof
    /\ BytesWritten(Len(conns)) < MaxBytes
    /\ LET x == Len(conns[c][d].wrote) + 1
       IN  conns' = [conns EXCEPT ![c][d].wrote = Append(conns[c][d].wrote, x),
                                  ![c][d].flight = Append(conns[c][d].flight, x)]
    /\ UNCHANGED provVars
    /\ UNCHANGED <<bridge, portForwarders, fw, ctxDone, exp, lastExpose, calls, term,
                   lastTerm, terms, panicked>>

\* the peer at the source end of direction d closes its sending side
PeerClose(c, d) ==
    /\ Running
    /\ conns[c][Src(d)] = "open"
    /\ ~conns[c][d].eof
    /\ conns' = [conns EXCEPT ![c][d].eof = TRUE]
    /\ UNCHANGED provVars
    /\ UNCHANGED <<bridge, portForwarders, fw, ctxDone, exp, lastExpose, calls, term,
                   lastTerm, terms, panicked>>

\* listener.Accept() can return a connection: Forward is in its loop, on a
\* listener that is bound on a bridge that is up
CanAccept(f) ==
    /\ fw[f].pc = "accept"
    /\ fw[f].listener = "open"
    /\ bridge = "running"

\* an accept loop that runs each tunnel to its end before the next Accept
FwdAcceptWaits(f) ==
    /\ Running
    /\ CanAccept(f)
    /\ Len(conns) < MaxConn
    /\ \A c \in Conns : conns[c].fwd = f => conns[c].pc = "returned"
    /\ conns' = Append(conns, NewTunnel(f))
    /\ UNCHANGED provVars
    /\ UNCHANGED <<bridge, portForwarders, fw, ctxDone, exp, lastExpose, calls, term,
                   lastTerm, terms, panicked>>

\* listener.Accept() returning a connection (lines 300, 305)
FwdAccept(f) ==
    /\ Running
    /\ CanAccept(f)
    /\ Len(conns) < MaxConn
    /\ conns' = Append(conns, NewTunnel(f))
    /\ UNCHANGED provVars
    /\ UNCHANGED <<bridge, portForwarders, fw, ctxDone, exp, lastExpose, calls, term,
                   lastTerm, terms, panicked>>

\* listener.Accept() failing (lines 300-303): the transport to the bridge is gone
FwdAcceptErr(f) ==
    /\ Running
    /\ fw[f].pc = "accept"
    /\ bridge = "stopped"
    /\ fw' = [fw EXCEPT ![f].pc = "returned", ![f].ret = "acceptErr",
                        ![f].listener = Deferred(fw[f].listener),
                        ![f].client = Deferred(fw[f].client)]
    /\ UNCHANGED provVars
    /\ UNCHANGED <<bridge, portForwarders, ctxDone, exp, lastExpose, calls, term,
                   lastTerm, terms, conns, panicked>>

\* ------------------------------------------------- PortForwarder.Close

\* close(ch) (lines 254, 255): closing a closed channel panics
CloseChan(ch) == IF ch = "open" THEN "closed" ELSE "panic"

\* One of the two statements of Close on forwarder f: half 0 is
\* close(pf.terminateChan), half 1 is close(pf.connectionCreated).
CloseStmt(f, half) ==
    LET ch == IF half = 0 THEN fw[f].terminateChan ELSE fw[f].connectionCreated
    IN  IF CloseChan(ch) = "panic"
        THEN /\ panicked' = "close of closed channel"
             /\ fw' = fw
        ELSE /\ panicked' = panicked
             /\ fw' = IF half = 0
                      THEN [fw EXCEPT ![f].terminateChan = CloseChan(ch)]
                      ELSE [fw EXCEPT ![f].connectionCreated = CloseChan(ch)]

\* ------------------------------------------- sshdContainer.exposeHostPort

IdleExpose == [pc |-> "idle", todo |-> <<>>, started |-> <<>>, snap |-> <<>>,
               i |-> 1, err |-> <<>>]

\* a join that keeps the first failure only
ErrorsJoinFirstOnly(err, f, v) ==
    IF v = "nil" \/ err # <<>> THEN err ELSE Append(err, <<f, v>>)

\* errors.Join(err, v) (line 227): nil values are dropped, the result is nil
\* (the empty sequence) when nothing is left; f names the forwarder v came from
ErrorsJoin(err, f, v) == IF v = "nil" THEN err ELSE Append(err, <<f, v>>)

\* the first loop is over: `range sshdC.portForwarders` (line 226) reads the
\* collection once
AfterAppend(e, pfs) ==
    IF e.todo = <<>> THEN [e EXCEPT !.pc = "recv", !.snap = pfs, !.i = 1] ELSE e


ExposeStart(ports) ==
    /\ Running
    /\ exp.pc = "idle"
    /\ calls < MaxCalls
    /\ Len(fw) + Len(ports) <= MaxFwd
    /\ calls' = calls + 1
    /\ exp' = AfterAppend([IdleExpose EXCEPT !.pc = "append", !.todo = ports],
                          portForwarders)
    /\ UNCHANGED provVars
    /\ UNCHANGED <<bridge, portForwarders, fw, ctxDone, lastExpose, term,
                   lastTerm, terms, conns, panicked>>

\* one iteration of the first loop (lines 216-221)
ExposeAppend ==
    /\ Running
    /\ exp.pc = "append"
    /\ LET port == Head(exp.todo)
           id   == Len(fw) + 1
           pfs  == Append(portForwarders, id)
       IN  /\ fw' = Append(fw, NewPortForwarder(SshdAddr(Sshd), Sshd.sshConfig, port, port))
           /\ portForwarders' = pfs
           /\ exp' = AfterAppend([exp EXCEPT !.todo = Tail(exp.todo),
                                             !.started = Append(exp.started, id)], pfs)
    /\ UNCHANGED provVars
    /\ UNCHANGED <<bridge, ctxDone, lastExpose, calls, term, lastTerm, terms, conns, panicked>>

\* <-pfw.connectionCreated (line 227): the value of a send of Forward, or the
\* zero value of a closed channel
ExposeRecv ==
    /\ Running
    /\ exp.pc = "recv"
    /\ exp.i <= Len(exp.snap)
    /\ LET f == exp.snap[exp.i]
       IN  \/ /\ fw[f].pc = "send"
              /\ fw[f].connectionCreated = "open"
              /\ fw' = [fw EXCEPT ![f] = [AfterSend(fw[f]) EXCEPT
                            !.observed = Append(fw[f].observed, <<fw[f].out, "forward", calls>>)]]
              /\ exp' = [exp EXCEPT !.i = exp.i + 1,
                                    !.err = ErrorsJoin(exp.err, f, fw[f].out)]
           \/ /\ fw[f].connectionCreated = "closed"
              /\ fw' = [fw EXCEPT ![f].observed = Append(fw[f].observed, <<"nil", "close", calls>>)]
              /\ exp' = [exp EXCEPT !.i = exp.i + 1,
                                    !.err = ErrorsJoin(exp.err, f, "nil")]
    /\ UNCHANGED provVars
    /\ UNCHANGED <<bridge, portForwarders, ctxDone, lastExpose, calls, term,
                   lastTerm, terms, conns, panicked>>

\* a return that closes the forwarders of a failed call before reporting
ExposeReturnRollback ==
    /\ Running
    /\ exp.pc = "recv"
    /\ exp.i > Len(exp.snap)
    /\ lastExpose' = [pc |-> "returned", call |-> calls, started |-> exp.started,
                      snap |-> exp.snap, err |-> exp.err]
    /\ exp' = IdleExpose
    /\ fw' = [f \in Fwds |->
                IF exp.err # <<>> /\ \E j \in 1..Len(exp.started) : exp.started[j] = f
                THEN [fw[f] EXCEPT !.terminateChan = "closed", !.connectionCreated = "closed"]
                ELSE fw[f]]
    /\ UNCHANGED provVars
    /\ UNCHANGED <<bridge, portForwarders, ctxDone, calls, term, lastTerm,
                   terms, conns, panicked>>

\* return err (line 230)
ExposeReturn ==
    /\ Running
    /\ exp.pc = "recv"
    /\ exp.i > Len(exp.snap)
    /\ lastExpose' = [pc |-> "returned", call |-> calls, started |-> exp.started,
                      snap |-> exp.snap, err |-> exp.err]
    /\ exp' = IdleExpose
    /\ UNCHANGED provVars
    /\ UNCHANGED <<bridge, portForwarders, fw, ctxDone, calls, term, lastTerm,
                   terms, conns, panicked>>

\* ------------------------------------------------ sshdContainer.Terminate

IdleTerm == [pc |-> "idle", snap |-> <<>>, i |-> 1, half |-> 0]

\* `range sshdC.portForwarders` (line 191) reads the collection once
TerminateStart ==
    /\ Running
    /\ term.pc = "idle"
    /\ terms < MaxTerm
    /\ terms' = terms + 1
    /\ term' = [IdleTerm EXCEPT !.pc = "close", !.snap = portForwarders]
    /\ UNCHANGED provVars
    /\ UNCHANGED <<bridge, portForwarders, fw, ctxDone, exp, lastExpose, calls,
                   lastTerm, conns, panicked>>

\* pfw.Close(ctx) of the loop (line 192), one channel close at a time
TerminateClose ==
    /\ Running
    /\ term.pc = "close"
    /\ term.i <= Len(term.snap)
    /\ CloseStmt(term.snap[term.i], term.half)
    /\ term' = IF term.half = 0 THEN [term EXCEPT !.half = 1]
               ELSE [term EXCEPT !.half = 0, !.i = term.i + 1]
    /\ UNCHANGED provVars
    /\ UNCHANGED <<bridge, portForwarders, ctxDone, exp, lastExpose, calls,
                   lastTerm, terms, conns>>

\* the loop of Terminate is over: the next statement calls
\* sshdC.DockerContainer.Terminate
AtBridgeTerminate(t) == t.pc = "close" /\ t.i > Len(t.snap)

\* a Terminate that reports success without the container being stopped
TerminateBridgeKeepsRunning ==
    /\ Running
    /\ AtBridgeTerminate(term)
    /\ bridge' = bridge
    /\ lastTerm' = "nil"
    /\ term' = IdleTerm
    /\ UNCHANGED provVars
    /\ UNCHANGED <<portForwarders, fw, ctxDone, exp, lastExpose, calls, terms,
                   conns, panicked>>

\* a Terminate that empties the collection after closing its forwarders
TerminateBridgeDrains ==
    /\ Running
    /\ AtBridgeTerminate(term)
    /\ \/ bridge' = "stopped" /\ lastTerm' = "nil"
       \/ bridge' \in {bridge, "stopped"} /\ lastTerm' = "err"
    /\ term' = IdleTerm
    /\ portForwarders' = <<>>
    /\ UNCHANGED provVars
    /\ UNCHANGED <<fw, ctxDone, exp, lastExpose, calls, terms, conns, panicked>>

\* a Terminate that clears the session configuration and the port of the
\* container it stops
TerminateBridgeDropsSession ==
    /\ Running
    /\ AtBridgeTerminate(term)
    /\ \/ bridge' = "stopped" /\ lastTerm' = "nil"
       \/ bridge' \in {bridge, "stopped"} /\ lastTerm' = "err"
    /\ term' = IdleTerm
    /\ bridges' = [i \in 1..Len(bridges) |->
                      [bridges[i] EXCEPT !.sshConfig = "nil", !.port = ""]]
    /\ UNCHANGED <<req, prov, provs, lookups, hostConfigs>>
    /\ UNCHANGED <<portForwarders, fw, ctxDone, exp, lastExpose, calls, terms, conns, panicked>>

\* return sshdC.DockerContainer.Terminate(ctx) (line 195): the container is
\* stopped and removed, or the runtime reports an error
TerminateBridge ==
    /\ Running
    /\ AtBridgeTerminate(term)
    /\ \/ bridge' = "stopped" /\ lastTerm' = "nil"
       \/ bridge' \in {bridge, "stopped"} /\ lastTerm' = "err"
    /\ term' = IdleTerm
    /\ UNCHANGED provVars
    /\ UNCHANGED <<portForwarders, fw, ctxDone, exp, lastExpose, calls, terms, conns, panicked>>

\* the caller cancels the context
CancelCtx ==
    /\ Running
    /\ ~ctxDone
    /\ ctxDone' = TRUE
    /\ UNCHANGED provVars
    /\ UNCHANGED <<bridge, portForwarders, fw, exp, lastExpose, calls, term,
                   lastTerm, terms, conns, panicked>>

\* ------------------------------------------------------- exposeHostPorts

\* the modifier installed at lines 96-122 around the one the request had
WrapModifier(hcm, sshdIP, net) ==
    [base |-> IF hcm.base = "nil" THEN "noop" ELSE hcm.base,
     layers |-> Append(hcm.layers, [sshdIP |-> sshdIP, net |-> net])]

\* an error return that hands back a pre-terminate hook with the error
FailedKeepsHook(e, r, lk, bs) ==
    [err |-> e,
     hooks |-> [PostReadies |-> <<>>,
                PreTerminates |-> <<[call |-> "Terminate", sshd |-> Len(bs)]>>],
     req |-> r, lookups |-> lk, bridges |-> bs]

\* `return sshdConnectHook, fmt.Errorf(...)` (lines 44, 62, 87, 93): the
\* zero-value hook set with the error; the request is as it was, lk and bs
\* are the lookups made and the containers started by then
Failed(e, r, lk, bs) ==
    [err |-> e, hooks |-> NoHooks, req |-> r, lookups |-> lk, bridges |-> bs]

\* a provisioning that goes on without a network when the lookup fails
ProvisionBridgeIgnoresLookup(r, p, out, lk, bs) ==
    LET net    == SshdFirstNetwork(r.Networks)
        looked == IF Len(r.Networks) > 0 THEN Append(lk, net) ELSE lk
        opts   == IF Len(r.Networks) > 0 /\ out.lookupOk THEN <<net>> ELSE <<>>
        made   == Append(bs, SshdContainer(opts, out.mappedOk))
    IN  IF ~out.newOk
        THEN Failed("failed to create the SSH server", r, looked, bs)
        ELSE IF ~out.mappedOk
        THEN Failed("failed to create the SSH server", r, looked, made)
        ELSE IF ~out.ipOk
        THEN Failed("failed to get IP for the SSHD container", r, looked, made)
        ELSE [err |-> "none",
              hooks |-> SshdConnectHook(Len(made)),
              req |-> [r EXCEPT !.HostConfigModifier =
                          WrapModifier(r.HostConfigModifier, Len(made), net)],
              lookups |-> looked,
              bridges |-> made]

\* exposeHostPorts from line 47 on, with the outcomes out of its
\* collaborators: pick the network, look it up, start the SSHD container,
\* get its IP, wrap the HostConfigModifier and build the hooks
ProvisionBridge(r, p, out, lk, bs) ==
    LET net    == SshdFirstNetwork(r.Networks)
        looked == IF Len(r.Networks) > 0 THEN Append(lk, net) ELSE lk
        opts   == IF Len(r.Networks) > 0 THEN <<net>> ELSE <<>>
        made   == Append(bs, SshdContainer(opts, out.mappedOk))
    IN  IF Len(r.Networks) > 0 /\ ~out.lookupOk
        THEN Failed("failed to get the network", r, looked, bs)
        ELSE IF ~out.newOk
        THEN Failed("failed to create the SSH server", r, looked, bs)
        ELSE IF ~out.mappedOk
        THEN Failed("failed to create the SSH server", r, looked, made)
        ELSE IF ~out.ipOk
        THEN Failed("failed to get IP for the SSHD container", r, looked, made)
        ELSE [err |-> "none",
              hooks |-> SshdConnectHook(Len(made)),
              req |-> [r EXCEPT !.HostConfigModifier =
                          WrapModifier(r.HostConfigModifier, Len(made), net)],
              lookups |-> looked,
              bridges |-> made]

\* a call that goes on to provision without looking at the number of ports
ExposeHostPortsUnchecked(r, p, out, lk, bs) == ProvisionBridge(r, p, out, lk, bs)

\* One call exposeHostPorts(ctx, r, p...) (lines 40-141); lk and bs are the
\* lookups made and the containers started so far.  The result carries the
\* returned error and hooks and what the call left behind.
ExposeHostPortsCall(r, p, out, lk, bs) ==
    IF Len(p) = 0
    THEN Failed("no ports to expose", r, lk, bs)
    ELSE ProvisionBridge(r, p, out, lk, bs)

Outcomes == [lookupOk : BOOLEAN, newOk : BOOLEAN, mappedOk : BOOLEAN, ipOk : BOOLEAN]

\* the caller runs exposeHostPorts(ctx, &req, p...) while it builds the
\* request, before any post-ready hook ran
Provision(p, out) ==
    /\ provs < MaxProv
    /\ calls = 0
    /\ LET res == ExposeHostPortsCall(req, p, out, lookups, bridges)
       IN  /\ prov' = [p |-> p, hap |-> req.HostAccessPorts, err |-> res.err,
                       hooks |-> res.hooks]
           /\ req' = res.req
           /\ lookups' = res.lookups
           /\ bridges' = res.bridges
    /\ provs' = provs + 1
    /\ hostConfigs' = hostConfigs
    /\ UNCHANGED runVars

NoProv == [p |-> <<>>, hap |-> <<>>, err |-> "not called", hooks |-> NoHooks]

\* the caller changes the HostAccessPorts of its request after the hooks
\* were built and before the container is ready
SetHostAccessPorts(ports) ==
    /\ prov.err = "none"
    /\ calls = 0
    /\ ports # req.HostAccessPorts
    /\ req' = [req EXCEPT !.HostAccessPorts = ports]
    /\ UNCHANGED <<prov, provs, lookups, bridges, hostConfigs>>
    /\ UNCHANGED runVars

\* the post-ready hook of lines 126-130 runs:
\* sshdContainer.exposeHostPort(ctx, req.HostAccessPorts...) on the request
\* as it is now
PostReadyHook ==
    /\ prov.err = "none"
    /\ calls = 0
    /\ ExposeStart(req.HostAccessPorts)

\* ------------------------------------------ the installed HostConfigModifier

\* the network modes and host configurations a modifier can be handed
Modes == {"", "none", "host", "bridge", "n1"}
HostConfigs == [NetworkMode : Modes, ExtraHosts : {<<>>, <<<<"db", "10.0.0.9">>>>}]

\* what the caller's own modifier does to the network mode
CallerModes == {"keep", "none", "host"}

\* a modifier that sets the extra hosts instead of appending to them
ApplyLayerSetsHosts(st, L) ==
    [st EXCEPT
        !.hostConfig.ExtraHosts = <<<<HostInternal, L.sshdIP>>>>,
        !.Networks = IF st.hostConfig.NetworkMode \in {L.net, "none", "host"}
                     THEN @ ELSE Append(@, L.net)]

\* the body of the installed modifier up to its call of originalHCM (lines
\* 97-118) for the layer L that one exposeHostPorts call installed: st holds
\* the host config, the request's live network list and the number of calls
\* of the modifier the request had first
ApplyLayer(st, L) ==
    [st EXCEPT
        !.hostConfig.ExtraHosts = Append(@, <<HostInternal, L.sshdIP>>),
        !.Networks = IF st.hostConfig.NetworkMode \in {L.net, "none", "host"}
                     THEN @ ELSE Append(@, L.net)]

\* the modifier the request had before any exposeHostPorts call: the
\* caller's own one, or the empty function of line 92
ApplyBase(st, base, callerMode) ==
    [st EXCEPT
        !.hostConfig.NetworkMode = IF base = "caller" /\ callerMode # "keep"
                                   THEN callerMode ELSE @,
        !.baseCalls = @ + 1]

\* req.HostConfigModifier(hostConfig): the layers from the last installed
\* to the first, each ending in originalHCM(hostConfig) (line 121)
RECURSIVE RunModifier(_, _, _, _)
RunModifier(hcm, k, st, callerMode) ==
    IF k = 0 THEN ApplyBase(st, hcm.base, callerMode)
    ELSE RunModifier(hcm, k - 1, ApplyLayer(st, hcm.layers[k]), callerMode)

\* the container is created from the request: its modifier runs on the
\* host configuration hc
InvokeModifier(hc, callerMode) ==
    /\ Len(req.HostConfigModifier.layers) > 0
    /\ Len(hostConfigs) < MaxInvoke
    /\ LET hcm == req.HostConfigModifier
           st  == RunModifier(hcm, Len(hcm.layers),
                              [hostConfig |-> hc, Networks |-> req.Networks,
                               baseCalls |-> 0], callerMode)
       IN  /\ req' = [req EXCEPT !.Networks = st.Networks]
           /\ hostConfigs' = Append(hostConfigs,
                                    [given |-> hc, left |-> st.hostConfig,
                                     baseCalls |-> st.baseCalls])
    /\ UNCHANGED <<prov, provs, lookups, bridges>>
    /\ UNCHANGED runVars

\* the runtime of one bridge right after newSshdContainer returned it
InitRun ==
    /\ bridge = "running"
    /\ portForwarders = <<>>
    /\ fw = <<>>
    /\ ctxDone = FALSE
    /\ exp = IdleExpose
    /\ lastExpose = [pc |-> "none", call |-> 0, started |-> <<>>, snap |-> <<>>, err |-> <<>>]
    /\ calls = 0
    /\ term = IdleTerm
    /\ lastTerm = "none"
    /\ terms = 0
    /\ conns = <<>>
    /\ panicked = "none"

\* a request as a caller can hand it over, before exposeHostPorts ran
InitProv ==
    /\ req \in [Networks : SeqsUpTo(Nets, MaxNets),
                HostAccessPorts : SeqsUpTo(Ports, MaxPorts),
                HostConfigModifier : {[base |-> b, layers |-> <<>>] : b \in {"nil", "caller"}}]
    /\ prov = NoProv
    /\ provs = 0
    /\ lookups = <<>>
    /\ bridges = <<>>
    /\ hostConfigs = <<>>
    /\ InitRun

\* the request and the call record after the exposeHostPorts call that
\* returned the hooks of the bridge
Provisioned ==
    /\ req = [Networks |-> <<>>,
              HostAccessPorts |-> <<8080>>,
              HostConfigModifier |-> WrapModifier([base |-> "nil", layers |-> <<>>], 1, "")]
    /\ prov = [p |-> <<8080>>, hap |-> <<8080>>, err |-> "none",
               hooks |-> SshdConnectHook(1)]
    /\ provs = 1
    /\ lookups = <<>>
    /\ bridges = <<SshdContainer(<<>>, TRUE)>>
    /\ hostConfigs = <<>>

Init == InitRun /\ Provisioned

Next ==
    \/ \E ports \in SeqsUpTo(Ports, MaxFwd) \ {<<>>} : ExposeStart(ports)
    \/ ExposeAppend
    \/ ExposeRecv
    \/ ExposeReturn
    \/ \E f \in Fwds : FwdDial(f)
    \/ \E f \in Fwds : FwdListen(f)
    \/ \E f \in Fwds : FwdSendPanic(f)
    \/ \E f \in Fwds : FwdSelect(f)
    \/ \E f \in Fwds : FwdAccept(f)
    \/ \E f \in Fwds : FwdAcceptErr(f)
    \/ TerminateStart
    \/ TerminateClose
    \/ TerminateBridge
    \/ CancelCtx

Spec == Init /\ [][Next]_vars

\* a step of the Forward goroutine of forwarder f that waits for no peer
FwdStep(f) ==
    /\ f \in Fwds
    /\ (FwdDial(f) \/ FwdListen(f) \/ FwdSendPanic(f) \/ FwdSelect(f) \/ FwdAcceptErr(f))

\* The runtime under the Go scheduler: a goroutine that can go on does go
\* on.  Calls from outside (exposeHostPort, Terminate, a cancel) and inbound
\* connections need not come.
SpecLive ==
    /\ Init
    /\ [][Next]_vars
    /\ WF_vars(ExposeAppend \/ ExposeRecv \/ ExposeReturn)
    /\ WF_vars(TerminateClose \/ TerminateBridge)
    /\ \A f \in 1..MaxFwd : WF_vars(FwdStep(f))

\* one forwarder of the bridge after exposeHostPort(ctx, 8080) returned nil:
\* bound and in its accept loop
InitTunnel ==
    /\ bridge = "running"
    /\ portForwarders = <<1>>
    /\ fw = <<[NewPortForwarder(SshdAddr(SshdContainer(<<>>, TRUE)), "set", 8080, 8080) EXCEPT
                  !.pc = "accept", !.out = "nil", !.client = "open",
                  !.listener = "open", !.observed = <<<<"nil", "forward", 1>>>>]>>
    /\ ctxDone = FALSE
    /\ exp = IdleExpose
    /\ lastExpose = [pc |-> "returned", call |-> 1, started |-> <<1>>, snap |-> <<1>>,
                     err |-> <<>>]
    /\ calls = 1
    /\ term = IdleTerm
    /\ lastTerm = "none"
    /\ terms = 0
    /\ conns = <<>>
    /\ panicked = "none"
    /\ Provisioned

\* the accept loop of that forwarder, its tunnels and their peers
NextTunnel ==
    \/ \E f \in Fwds : FwdAccept(f)
    \/ \E c \in Conns : TunDial(c)
    \/ \E c \in Conns, d \in Dirs : CopyRead(c, d)
    \/ \E c \in Conns, d \in Dirs : CopyWrite(c, d)
    \/ \E c \in Conns, d \in Dirs : CopySignal(c, d)
    \/ \E c \in Conns : TunReturn(c)
    \/ \E c \in Conns, d \in Dirs : PeerWrite(c, d)
    \/ \E c \in Conns, d \in Dirs : PeerClose(c, d)
    \/ CancelCtx

SpecTunnel == InitTunnel /\ [][NextTunnel]_vars

\* a step of the copy goroutine of direction d of tunnel c
CopyStep(c, d) ==
    /\ c \in Conns
    /\ (CopyRead(c, d) \/ CopyWrite(c, d) \/ CopySignal(c, d))

\* The tunnels under the Go scheduler: runTunnel and its copy goroutines go
\* on when they can.  Peers need not write or close, connections need not
\* arrive.
SpecTunnelLive ==
    /\ InitTunnel
    /\ [][NextTunnel]_vars
    /\ \A c \in 1..MaxConn : WF_vars(c \in Conns /\ (TunDial(c) \/ TunReturn(c)))
    /\ \A c \in 1..MaxConn : \A d \in Dirs : WF_vars(CopyStep(c, d))

\* exposeHostPorts calls on requests of every shape, the run of the installed
\* modifier, and the post-ready hook up to the start of its forwarders
NextProv ==
    \/ \E p \in SeqsUpTo(Ports, MaxPorts), out \in Outcomes : Provision(p, out)
    \/ \E hc \in HostConfigs, m \in CallerModes : InvokeModifier(hc, m)
    \/ \E ports \in SeqsUpTo(Ports, MaxPorts) : SetHostAccessPorts(ports)
    \/ PostReadyHook
    \/ ExposeAppend

SpecProv == InitProv /\ [][NextProv]_vars

\* ------------------------------------------------------------------ claims

\* the outcomes forwarder f's Forward handed to a receiver
Delivered(f) == {k \in 1..Len(fw[f].observed) : fw[f].observed[k][2] = "forward"}

\* C1: when exposeHostPort has returned, every forwarder that call started has
\* delivered its bind outcome on connectionCreated.
C1_ReturnsAfterEveryOutcome ==
    lastExpose.pc = "returned" =>
        \A j \in 1..Len(lastExpose.started) : Delivered(lastExpose.started[j]) # {}

\* C2: every value a receiver observes on connectionCreated is the one
\* Forward sent, at most one value is ever observed, and a success is only
\* observed for a forwarder whose remote listener was bound.
C2_OnlyForwardOutcomeObserved ==
    \A f \in Fwds :
        /\ Len(fw[f].observed) <= 1
        /\ \A k \in 1..Len(fw[f].observed) :
              /\ fw[f].observed[k][2] = "forward"
              /\ fw[f].observed[k][1] = "nil" => fw[f].listener # "none"

\* C3: Forward never sends on a connectionCreated channel that Close has
\* closed (no panic), and no forwarder delivers more than one bind outcome.
C3_NoSendOnClosedChannel ==
    /\ panicked # "send on closed channel"
    /\ \A f \in Fwds : Cardinality(Delivered(f)) <= 1

\* C4: whenever Terminate invokes the bridge container's Terminate, every
\* forwarder in portForwarders has had Close invoked (its termination
\* signal is fired).
C4_ForwardersClosedBeforeBridge ==
    [][(AtBridgeTerminate(term) /\ term' = IdleTerm) =>
          \A j \in 1..Len(portForwarders) :
              fw[portForwarders[j]].terminateChan = "closed"]_vars

FailedIn(c) ==
    {f \in Fwds : \E k \in 1..Len(fw[f].observed) :
        /\ fw[f].observed[k][3] = c
        /\ fw[f].observed[k][2] = "forward"
        /\ fw[f].observed[k][1] # "nil"}

\* C8: exposeHostPort returns a non-nil error exactly when a forwarder it
\* waited on delivered a bind failure to it, and the error holds the failure
\* of every such forwarder.
C8_ErrorJoinsEveryFailure ==
    lastExpose.pc = "returned" =>
        /\ (lastExpose.err # <<>>) <=> (FailedIn(lastExpose.call) # {})
        /\ \A f \in FailedIn(lastExpose.call) :
              \E j \in 1..Len(lastExpose.err) : lastExpose.err[j] = <<f, fw[f].out>>

\* a call returned with the failures of two forwarders
C8_Witness ==
    /\ lastExpose.pc = "returned"
    /\ Cardinality(FailedIn(lastExpose.call)) = 2

\* C9: no step of exposeHostPort, its failing return included, closes a
\* channel, the listener or the client of a forwarder that bound its remote
\* listener, or takes a forwarder out of portForwarders.
C9_NoRollback ==
    [][exp' # exp =>
          /\ Len(portForwarders') >= Len(portForwarders)
          /\ SubSeq(portForwarders', 1, Len(portForwarders)) = portForwarders
          /\ \A f \in Fwds :
                fw[f].listener = "open" =>
                   /\ fw'[f].listener = "open"
                   /\ fw'[f].client = fw[f].client
                   /\ fw'[f].terminateChan = fw[f].terminateChan
                   /\ fw'[f].connectionCreated = fw[f].connectionCreated
                   /\ fw[f].pc = "accept" => fw'[f].pc = "accept"]_vars

\* a call failed on one forwarder while another one it started is bound,
\* unclosed, still in portForwarders and in its accept loop
C9_Witness ==
    /\ lastExpose.pc = "returned"
    /\ lastExpose.err # <<>>
    /\ \E j \in 1..Len(lastExpose.started) :
          LET f == lastExpose.started[j]
          IN  /\ fw[f].pc = "accept"
              /\ fw[f].listener = "open"
              /\ fw[f].terminateChan = "open"
              /\ fw[f].connectionCreated = "open"
              /\ \E i \in 1..Len(portForwarders) : portForwarders[i] = f

\* C6: exposeHostPorts called with zero ports returns an error and no hooks,
\* and the call makes no network lookup, starts no SSHD container and leaves
\* the caller's request as it was.
C6_ZeroPortsNoSideEffect ==
    [][(provs' # provs /\ prov'.p = <<>>) =>
          /\ prov'.err = "no ports to expose"
          /\ prov'.hooks = NoHooks
          /\ lookups' = lookups
          /\ bridges' = bridges
          /\ req' = req]_vars

\* a zero-port call on a request that names a network was rejected
C6_Witness ==
    /\ provs = 1
    /\ prov.p = <<>>
    /\ prov.err = "no ports to expose"
    /\ Len(req.Networks) > 0
    /\ lookups = <<>>
    /\ bridges = <<>>

\* C7: exposeHostPorts returns an error with no hook at all, or no error
\* with exactly one post-ready and one pre-terminate hook.
C7_HooksAllOrNone ==
    provs > 0 =>
        \/ /\ prov.err # "none"
           /\ prov.hooks.PostReadies = <<>>
           /\ prov.hooks.PreTerminates = <<>>
        \/ /\ prov.err = "none"
           /\ Len(prov.hooks.PostReadies) = 1
           /\ Len(prov.hooks.PreTerminates) = 1

\* a call failed after its SSHD container was started and returned no hook
C7_Witness ==
    /\ provs = 1
    /\ prov.err = "failed to get IP for the SSHD container"
    /\ Len(bridges) = 1
    /\ prov.hooks = NoHooks

IsPrefix(s, t) == Len(s) <= Len(t) /\ SubSeq(t, 1, Len(s)) = s

\* runTunnel and both of its copy goroutines are over
TunnelOver(c) ==
    /\ conns[c].pc = "returned"
    /\ conns[c].up.pc \in {"idle", "done"}
    /\ conns[c].down.pc \in {"idle", "done"}

\* C10 as claimed: in each direction of a tunnel the reading peer receives
\* the bytes the writing peer wrote, in order and unaltered, and once the
\* tunnel is over everything that was written has been received.
C10_EveryByteDelivered ==
    \A c \in Conns : \A d \in Dirs :
        /\ IsPrefix(conns[c][d].got, conns[c][d].wrote)
        /\ (TunnelOver(c) /\ conns[c].local # "none") =>
               conns[c][d].got = conns[c][d].wrote

\* C10 as amended: in each direction of a tunnel what the reading peer has
\* received is at every moment a prefix of what the writing peer wrote
\* (in order, unaltered, nothing twice).
C10_DeliveredIsPrefixOfWritten ==
    \A c \in Conns : \A d \in Dirs : IsPrefix(conns[c][d].got, conns[c][d].wrote)

\* a tunnel has carried two bytes up and one byte down
C10_Witness ==
    \E c \in Conns :
        /\ conns[c].up.got = <<1, 2>>
        /\ conns[c].down.got = <<1>>

\* C11: a failed dial of the local port in runTunnel closes the accepted
\* connection of that tunnel and nothing else: the forwarder stays in its
\* accept loop with nothing returned, every other tunnel is as it was, and
\* the forwarder can accept as it could before.
C11_LocalDialFailureIsLocal ==
    [][\A c \in Conns :
          (conns[c].pc = "dial" /\ conns'[c].pc = "returned") =>
              /\ conns'[c].remote = "closed"
              /\ fw' = fw
              /\ panicked' = panicked
              /\ \A o \in Conns \ {c} : conns'[o] = conns[o]
              /\ \A f \in Fwds : CanAccept(f) => CanAccept(f)']_vars

\* after a tunnel of the forwarder was abandoned on its local dial, a later
\* connection of the same forwarder carried a byte in each direction
C11_Witness ==
    \E c \in Conns : \E o \in Conns :
        /\ c < o
        /\ conns[c].fwd = conns[o].fwd
        /\ conns[c].pc = "returned"
        /\ conns[c].local = "none"
        /\ conns[o].up.got = <<1>>
        /\ conns[o].down.got = <<1>>
        /\ fw[conns[c].fwd].pc = "accept"

\* the forwarder a step of Terminate's loop calls Close on
Closing == term.snap[term.i]

\* a step of Terminate executes a statement of Close
CloseStep == term.pc = "close" /\ term.i <= Len(term.snap) /\ term' # term

\* C12: a statement of Close on one forwarder leaves every other forwarder
\* of the bridge as it was (channels, listener, client, position of Forward)
\* and its tunnels as they were, and the other forwarder goes on running.
C12_CloseLeavesOthersAlone ==
    [][CloseStep =>
          \A g \in Fwds \ {Closing} :
              /\ fw'[g] = fw[g]
              /\ \A c \in Conns : conns[c].fwd = g => conns'[c] = conns[c]
              /\ panicked' = panicked]_vars

\* an exposeHostPorts call with ports started an SSHD container
BridgeMade == provs' # provs /\ Len(bridges') > Len(bridges)

\* the networks the SSHD container started by the step was launched on
JoinedNetworks == bridges'[Len(bridges')].request.Networks

\* the first entry of nets that is not the default network, "" if none
FirstNonDefault(nets) ==
    LET idx == {i \in 1..Len(nets) : nets[i] # "bridge"}
    IN  IF idx = {} THEN ""
        ELSE nets[CHOOSE i \in idx : \A j \in idx : i <= j]

\* C13 as claimed: for a network list that holds an entry other than
\* "bridge" the SSHD container joins the first such entry; for an empty list
\* it joins no network and no lookup is made.
C13_JoinsFirstNonDefault ==
    [][BridgeMade =>
          /\ FirstNonDefault(req.Networks) # "" =>
                 JoinedNetworks = <<FirstNonDefault(req.Networks)>>
          /\ Len(req.Networks) = 0 => (JoinedNetworks = <<>> /\ lookups' = lookups)]_vars

\* C13 as amended: for a non-empty network list the SSHD container joins the
\* first entry, or the second entry when the first is "bridge" and the list
\* has more than one entry; the lookup made is for that network; for an empty
\* list it joins no network and no lookup is made.
C13_JoinsFirstOrSecond ==
    [][BridgeMade =>
          IF Len(req.Networks) > 0
          THEN LET n == IF req.Networks[1] = "bridge" /\ Len(req.Networks) > 1
                        THEN req.Networks[2] ELSE req.Networks[1]
               IN  /\ JoinedNetworks = <<n>>
                   /\ lookups' = Append(lookups, n)
          ELSE JoinedNetworks = <<>> /\ lookups' = lookups]_vars

\* a call on a list starting with "bridge" put the SSHD container on the
\* second, non-default network
C13_Witness ==
    /\ prov.err = "none"
    /\ Len(req.Networks) > 1
    /\ req.Networks[1] = "bridge"
    /\ req.Networks[2] # "bridge"
    /\ Len(bridges) = 1
    /\ bridges[1].request.Networks = <<req.Networks[2]>>

\* the elements of a sequence
Range(s) == {s[i] : i \in 1..Len(s)}

\* the installed modifier has run in this step; the host configuration it left
ModifierRan == hostConfigs' # hostConfigs
LeftHostConfig == hostConfigs'[Len(hostConfigs')].left

\* C14: after the installed HostConfigModifier has run, the request's network
\* list holds the network of the SSHD container, unless the container runs in
\* network mode "none" or "host" (also when the caller's own modifier set that
\* mode), and then nothing was added; an empty network name is never added.
C14_BridgeNetworkAddedUnlessIsolated ==
    [][ModifierRan =>
          /\ LeftHostConfig.NetworkMode \in {"none", "host"} =>
                 req'.Networks = req.Networks
          /\ LeftHostConfig.NetworkMode \notin {"none", "host"} =>
                 \A k \in 1..Len(req.HostConfigModifier.layers) :
                     LET net == req.HostConfigModifier.layers[k].net
                     IN  net # "" => net \in Range(req'.Networks)
          /\ "" \notin Range(req'.Networks)]_vars

\* Forward of forwarder f has left its accept loop and released the remote
\* listener and the SSH client
Released(f) ==
    /\ f \in Fwds
    /\ fw[f].pc = "returned"
    /\ fw[f].listener = "closed"
    /\ fw[f].client = "closed"

\* C15: once Close has fired the termination signal of a forwarder whose
\* Forward is in the accept loop, Forward eventually leaves the loop and
\* releases its listener and its client.
C15_ClosedForwarderStops ==
    \A f \in 1..MaxFwd :
        (f \in Fwds /\ fw[f].terminateChan = "closed" /\ fw[f].pc = "accept")
            ~> (Released(f) \/ ~Running)

\* Forward of forwarder f failed to dial the bridge or to bind its listener
BindFailed(f) == fw[f].out \in {"dialErr", "listenErr"}

\* C16: a Forward that failed to dial or to bind never reaches the select or
\* the accept loop and never has a connection accepted; it hands its error
\* over at most once; when it has returned it has handed over exactly that
\* error, once, and returned it; after a dial failure no listener was asked
\* for.
C16_BindFailureReportedOnce ==
    \A f \in Fwds :
        BindFailed(f) =>
            /\ fw[f].pc \in {"send", "returned", "panicked"}
            /\ \A c \in Conns : conns[c].fwd # f
            /\ Cardinality(Delivered(f)) <= 1
            /\ \A k \in Delivered(f) : fw[f].observed[k][1] = fw[f].out
            /\ fw[f].pc = "returned" =>
                   (fw[f].ret = fw[f].out /\ Cardinality(Delivered(f)) = 1)
            /\ fw[f].out = "dialErr" => fw[f].listener = "none"

\* one Forward returned its dial error and another its listen error, each
\* after handing it to exposeHostPort
C16_Witness ==
    \E f \in Fwds : \E g \in Fwds :
        /\ fw[f].pc = "returned" /\ fw[f].ret = "dialErr"
        /\ fw[g].pc = "returned" /\ fw[g].ret = "listenErr"
        /\ Cardinality(Delivered(f)) = 1
        /\ Cardinality(Delivered(g)) = 1
        /\ fw[g].client = "closed"

\* Forward of forwarder f takes its select with a signal already there
SelectSignalled(f) ==
    /\ fw[f].pc = "select"
    /\ fw'[f].pc # "select"
    /\ (ctxDone \/ fw[f].terminateChan = "closed")

\* C17 as claimed: a Forward that finds the context cancelled or the
\* termination signal fired at its select closes the listener and the client
\* and returns nil, without entering the accept loop.
C17_SignalledSelectReturnsNil ==
    [][\A f \in Fwds :
          SelectSignalled(f) =>
              /\ fw'[f].pc = "returned"
              /\ fw'[f].ret = "nil"
              /\ fw'[f].listener = "closed"
              /\ fw'[f].client = "closed"]_vars

\* C17 as amended: such a Forward returns without entering the accept loop,
\* with the listener and the client closed; it returns nil, or the error of
\* the close that failed.
C17_SignalledSelectReturns ==
    [][\A f \in Fwds :
          SelectSignalled(f) =>
              /\ fw'[f].pc = "returned"
              /\ fw'[f].ret \in {"nil", "closeErr"}
              /\ fw'[f].listener = "closed"
              /\ fw'[f].client = "closed"
              /\ conns' = conns]_vars

\* a Forward that had bound and reported success returned nil on a fired
\* termination signal, with no connection ever accepted
C17_Witness ==
    \E f \in Fwds :
        /\ fw[f].pc = "returned"
        /\ fw[f].out = "nil"
        /\ fw[f].ret = "nil"
        /\ fw[f].terminateChan = "closed"
        /\ ~ctxDone
        /\ fw[f].listener = "closed"
        /\ fw[f].client = "closed"
        /\ conns = <<>>

\* C18: a runTunnel whose local dial succeeded holds both connections open
\* while it waits, returns only after one of its copy directions has
\* finished, and has closed both connections when it has returned: after the
\* return never exactly one end is open.
C18_BothEndsClosedTogether ==
    \A c \in Conns :
        /\ conns[c].pc = "wait" =>
               (conns[c].remote = "open" /\ conns[c].local = "open")
        /\ (conns[c].pc = "returned" /\ conns[c].local # "none") =>
               /\ conns[c].remote = "closed"
               /\ conns[c].local = "closed"
               /\ \E d \in Dirs : conns[c][d].pc = "done"

\* runTunnel returned on the end of the upward copy and closed both ends
\* while the downward copy still held a chunk to write
C18_Witness ==
    \E c \in Conns :
        /\ conns[c].pc = "returned"
        /\ conns[c].up.pc = "done"
        /\ conns[c].down.pc = "write"
        /\ conns[c].remote = "closed"
        /\ conns[c].local = "closed"

\* C19: whatever its tunnels are doing, a forwarder in its accept loop on a
\* bound listener of a running bridge can take the next inbound connection
\* (up to the bound on connections).
C19_AcceptNeverWaitsForTunnel ==
    \A f \in Fwds :
        (Running /\ CanAccept(f) /\ Len(conns) < MaxConn) => ENABLED FwdAccept(f)

\* with the first tunnel of the forwarder still in its local dial, a second
\* connection of the same forwarder was accepted and carried a byte upward
C19_Witness ==
    /\ Len(conns) = 2
    /\ conns[1].fwd = conns[2].fwd
    /\ conns[1].pc = "dial"
    /\ conns[2].up.got = <<1>>

\* the ports of the forwarders started so far and still to be started by the
\* running exposeHostPort call
ExposedPorts == [i \in 1..Len(fw) |-> fw[i].remotePort] \o exp.todo

\* C20 as claimed: no forwarder exists before the post-ready hook has run,
\* and the hook starts forwarders for exactly the ports exposeHostPorts was
\* called with (the request's HostAccessPorts of that moment), whatever
\* happened to HostAccessPorts since.
C20_HookExposesPortsOfBuildTime ==
    /\ calls = 0 => fw = <<>>
    /\ (calls > 0 /\ prov.err = "none" /\ prov.hap = prov.p) => ExposedPorts = prov.p

\* C21: for a request with at least one network, a call with ports whose
\* network lookup fails returns the lookup error and no hooks, starts no SSHD
\* container and leaves the request as it was, whatever the other
\* collaborators would have answered.
C21_LookupFailureIsFatal ==
    \A p \in SeqsUpTo(Ports, MaxPorts) \ {<<>>} : \A out \in Outcomes :
        (Len(req.Networks) > 0 /\ ~out.lookupOk) =>
            LET res == ExposeHostPortsCall(req, p, out, lookups, bridges)
            IN  /\ res.err = "failed to get the network"
                /\ res.hooks = NoHooks
                /\ res.bridges = bridges
                /\ res.req = req

\* a call on a request with a network failed on the lookup: no container,
\* no hooks, the lookup was made
C21_Witness ==
    /\ provs = 1
    /\ prov.err = "failed to get the network"
    /\ Len(req.Networks) > 0
    /\ Len(req.HostConfigModifier.layers) = 0
    /\ Len(lookups) = 1
    /\ bridges = <<>>
    /\ prov.hooks = NoHooks

\* the SSHD containers the exposeHostPorts call of this step started
StartedByCall == {i \in 1..Len(bridges') : i > Len(bridges)}

\* C22: an exposeHostPorts call that returns an error leaves no SSHD
\* container it started running: a container started before the failure has
\* been terminated when the call returns.
C22_FailedProvisioningStopsBridge ==
    [][(provs' # provs /\ prov'.err # "none") =>
          \A i \in StartedByCall : bridges'[i].state # "running"]_vars

\* the step in which Terminate returns what DockerContainer.Terminate returned
TerminateReturns == AtBridgeTerminate(term) /\ term' = IdleTerm

\* C23: when Terminate returns, with the error of the bridge container's
\* termination or with nil, both channels of every forwarder of the bridge
\* have been closed.
C23_ForwardersClosedWhateverTheOutcome ==
    [][TerminateReturns =>
          /\ lastTerm' \in {"nil", "err"}
          /\ \A j \in 1..Len(portForwarders) :
                /\ fw[portForwarders[j]].terminateChan = "closed"
                /\ fw[portForwarders[j]].connectionCreated = "closed"]_vars

\* C24: no Terminate and no Close ever closes a channel that is closed
\* already: each channel of a forwarder is closed at most once.
C24_ChannelsClosedAtMostOnce == panicked # "close of closed channel"

\* C25: every call of exposeHostPort returns in the end, the second call on
\* a bridge like the first, given that every Forward goes through its dial
\* and listen.
C25_ExposeHostPortReturns ==
    (exp.pc # "idle") ~> (exp.pc = "idle" \/ ~Running)

\* C26: a Forward that is in its accept loop when the context is cancelled
\* eventually returns with its listener and its client released.
C26_CancelledForwarderStops ==
    \A f \in 1..MaxFwd :
        (f \in Fwds /\ ctxDone /\ fw[f].pc = "accept") ~> (Released(f) \/ ~Running)

\* C27: when Forward has returned, on whichever path, the SSH client and the
\* remote listener it opened are closed.
C27_ReturnedForwardHoldsNothing ==
    \A f \in Fwds :
        fw[f].pc = "returned" =>
            (fw[f].client # "open" /\ fw[f].listener # "open")

\* one Forward returned on a listen failure and another on an accept error,
\* each with what it had opened closed
C27_Witness ==
    \E f \in Fwds : \E g \in Fwds :
        /\ fw[f].pc = "returned" /\ fw[f].ret = "listenErr"
        /\ fw[f].client = "closed" /\ fw[f].listener = "none"
        /\ fw[g].pc = "returned" /\ fw[g].ret = "acceptErr"
        /\ fw[g].client = "closed" /\ fw[g].listener = "closed"

\* C28: the collection is empty until exposeHostPort is called; it changes
\* only in the first loop of exposeHostPort, each iteration of which takes
\* one requested port and appends one new forwarder whose remote and local
\* port are that port; nothing else, Terminate included, changes it.
C28_CollectionGrowsOnlyInExpose ==
    /\ [](calls = 0 => portForwarders = <<>>)
    /\ [][/\ portForwarders' # portForwarders => exp.pc = "append"
          /\ (exp.pc = "append" /\ exp' # exp) =>
                 /\ portForwarders' = Append(portForwarders, Len(fw) + 1)
                 /\ Len(fw') = Len(fw) + 1
                 /\ fw'[Len(fw')].remotePort = Head(exp.todo)
                 /\ fw'[Len(fw')].localPort = Head(exp.todo)
                 /\ exp'.todo = Tail(exp.todo)
                 /\ exp'.started = Append(exp.started, Len(fw) + 1)]_vars

\* after two calls and a Terminate that returned, the collection holds the
\* forwarders of both calls
C28_Witness ==
    /\ lastTerm # "none"
    /\ calls = 2
    /\ portForwarders = <<1, 2>>
    /\ fw[1].remotePort = fw[1].localPort
    /\ fw[2].remotePort = fw[2].localPort
    /\ fw[1].terminateChan = "closed"

\* the last run of the request's modifier, after the step
LastRun == hostConfigs'[Len(hostConfigs')]

\* C29: a run of the installed modifier leaves the extra hosts it was given
\* in place and appends, for each exposeHostPorts call that installed a
\* layer, exactly one entry mapping HostInternal to the IP of that call's
\* SSHD container; the modifier the request had first is invoked exactly once.
C29_ModifierAppendsOneHostAndKeepsOriginal ==
    [][ModifierRan =>
          LET layers == req.HostConfigModifier.layers
              n      == Len(layers)
              before == LastRun.given.ExtraHosts
              after  == LastRun.left.ExtraHosts
          IN  /\ Len(after) = Len(before) + n
              /\ SubSeq(after, 1, Len(before)) = before
              /\ \A k \in 1..n :
                    after[Len(before) + k] = <<HostInternal, layers[n + 1 - k].sshdIP>>
              /\ LastRun.baseCalls = 1]_vars

\* a run on a host configuration that had an extra host already, with the
\* caller's own modifier setting the network mode
C29_Witness ==
    /\ Len(hostConfigs) = 1
    /\ req.HostConfigModifier.base = "caller"
    /\ hostConfigs[1].given.ExtraHosts = <<<<"db", "10.0.0.9">>>>
    /\ hostConfigs[1].left.ExtraHosts = <<<<"db", "10.0.0.9">>, <<HostInternal, 1>>>>
    /\ hostConfigs[1].given.NetworkMode = ""
    /\ hostConfigs[1].left.NetworkMode = "host"
    /\ hostConfigs[1].baseCalls = 1

\* both copy goroutines of tunnel c are over
CopiesOver(c) == conns[c].up.pc = "done" /\ conns[c].down.pc = "done"

\* C30: after a runTunnel whose local dial succeeded has returned, both of
\* its copy goroutines come to their end, and a copy goroutine that is about
\* to send on done always finds room in the channel.
C30_CopyGoroutinesEnd ==
    /\ \A c \in 1..MaxConn :
          (c \in Conns /\ conns[c].pc = "returned" /\ conns[c].local # "none")
              ~> (c \in Conns /\ CopiesOver(c))
    /\ [](\A c \in Conns : \A d \in Dirs :
             conns[c][d].pc = "signal" => conns[c].done < 2)

\* runTunnel has returned, both copy goroutines are over, and the value the
\* slower one sent lies in the done channel with no receiver left
C30_Witness ==
    \E c \in Conns :
        /\ conns[c].pc = "returned"
        /\ conns[c].local = "closed"
        /\ CopiesOver(c)
        /\ conns[c].done = 1

\* C31: the launch request of every SSHD container has an empty
\* HostAccessPorts list and exposes port 22 only, whatever networks the
\* customizer of exposeHostPorts put on it, and one call of exposeHostPorts
\* starts at most one SSHD container.
C31_BridgeRequestAsksNoHostAccess ==
    /\ [](\A i \in 1..Len(bridges) :
            /\ bridges[i].request.HostAccessPorts = <<>>
            /\ bridges[i].request.ExposedPorts = <<"22">>)
    /\ [][Len(bridges') <= Len(bridges) + 1]_vars

\* a call with ports to expose started an SSHD container that the customizer
\* put on a network of the request
C31_Witness ==
    /\ prov.err = "none"
    /\ Len(prov.p) > 0
    /\ Len(req.HostAccessPorts) > 0
    /\ Len(bridges) > 0
    /\ Sshd.request.Networks # <<>>
    /\ Sshd.request.HostAccessPorts = <<>>

\* C32: no two SSHD containers started in the same process are launched
\* with the same PASSWORD: the secret of one bridge is not the secret of
\* another.
C32_BridgesHaveDistinctSecrets ==
    \A i, j \in 1..Len(bridges) :
        i # j => bridges[i].request.Env.PASSWORD # bridges[j].request.Env.PASSWORD

\* C33: once exposeHostPorts has returned its hooks without error, the
\* sshdContainer has its sshConfig and its mapped port, every PortForwarder
\* carries that sshConfig and the address localhost:<that port>, and no step
\* of exposeHostPort, Forward, Close or Terminate changes the sshConfig or
\* the port of a container or of a forwarder.
C33_SessionFixedAfterProvisioning ==
    /\ [](prov.err = "none" =>
            /\ Sshd.sshConfig = "set"
            /\ Sshd.port = "mapped"
            /\ \A f \in Fwds :
                  /\ fw[f].sshConfig = "set"
                  /\ fw[f].sshDAddr = <<"localhost", "mapped">>)
    /\ [][/\ Len(bridges') >= Len(bridges)
          /\ \A i \in 1..Len(bridges) :
                /\ bridges'[i].sshConfig = bridges[i].sshConfig
                /\ bridges'[i].port = bridges[i].port
          /\ Len(fw') >= Len(fw)
          /\ \A f \in Fwds :
                /\ fw'[f].sshConfig = fw[f].sshConfig
                /\ fw'[f].sshDAddr = fw[f].sshDAddr]_vars

\* Terminate has returned after closing the forwarder of the first call of
\* exposeHostPort, and a second call has created a forwarder on the same
\* bridge that Terminate did not close
C33_Witness ==
    /\ prov.err = "none"
    /\ Len(fw) = 2
    /\ calls = 2
    /\ lastExpose.call = 2
    /\ lastExpose.started = <<2>>
    /\ lastTerm # "none"
    /\ term = IdleTerm
    /\ fw[1].terminateChan = "closed"
    /\ fw[2].terminateChan = "open"
    /\ fw[2].pc # "dial"
    /\ fw[1].sshConfig = fw[2].sshConfig
    /\ fw[1].sshDAddr = fw[2].sshDAddr

====
